---- MODULE Spec2Model ----
(***************************************************************************)
(* Model of kwestyon.py: a Telegram bot that asks a text-generation API    *)
(* for multiple-choice questions on a topic and posts them as quiz polls.  *)
(*                                                                         *)
(* The file holds two variants of the same script (lines 1-219 and lines   *)
(* 220-421).  They differ in send_polls only: the first variant sends a    *)
(* hint message (the 'keywords' field) between the poll and the            *)
(* explanation.  The variable `variant` selects which one runs.            *)
(*                                                                         *)
(* Python values are modelled as records [t, chars, items]:                *)
(*   t = "str"   chars is the string, one character per element            *)
(*   t = "num"   a JSON number,  t = "null"  JSON null                     *)
(*   t = "list"  items is the sequence of element values                   *)
(*   t = "dict"  chars = <<token>>, the object literal; its keys and       *)
(*               values are given by the table Obj                         *)
(*   t = "none"  Python None                                               *)
(***************************************************************************)
EXTENDS Integers, Sequences, FiniteSets, TLC

VARIABLES
    chatType,     \* message.chat.type of the conversation's chat
    variant,      \* 1: script with the hint message, 2: script without it
    conv,         \* ConversationHandler state of the chat: "idle" / "awaiting_topic"
    pending,      \* updates received from the platform and not yet handled
    pc,           \* position of the application: "ready" or a position inside handle_topic
    handler,      \* callback that handled the last update taken
    outcome,      \* how that callback ended (or "running")
    user_input,   \* handle_topic's user_input
    reply,        \* what the generation endpoint answered to the last request
    raw_mcqs,     \* handle_topic's raw_mcqs: what ask_gemini returned
    gen_calls,    \* number of ask_gemini calls made by the running callback
    i,            \* send_polls' loop counter
    msg,          \* send_polls' msg.message_id (position of the message in sent)
    sent          \* outbound operations performed by the callback, in order

vars == <<chatType, variant, conv, pending, pc, handler, outcome, user_input,
          reply, raw_mcqs, gen_calls, i, msg, sent>>

(***************************************************************************)
(* Bounds                                                                  *)
(***************************************************************************)
\* longest question array the generation endpoint returns in Spec
MaxQuestions == 2
\* most updates waiting to be handled
MaxPending == 1
\* longest reply text (in tokens) explored in SpecGen
MaxReplyLen == 5

(***************************************************************************)
(* Python values                                                           *)
(***************************************************************************)
Str(s) == [t |-> "str", chars |-> s, items |-> <<>>]
Num == [t |-> "num", chars |-> <<"7">>, items |-> <<>>]
Null == [t |-> "null", chars |-> <<>>, items |-> <<>>]
List(xs) == [t |-> "list", chars |-> <<>>, items |-> xs]
Dict(tok) == [t |-> "dict", chars |-> <<tok>>, items |-> <<>>]
None == [t |-> "none", chars |-> <<>>, items |-> <<>>]

\* the test `raw_mcqs is None` in place of `not raw_mcqs`
TruthyUnlessNone(v) == v.t # "none"

\* Python truthiness, as used by `if not raw_mcqs`
Truthy(v) ==
    CASE v.t = "none" -> FALSE
      [] v.t = "null" -> FALSE
      [] v.t = "list" -> v.items # <<>>
      [] v.t = "str" -> v.chars # <<>>
      [] OTHER -> TRUE

(***************************************************************************)
(* The question objects the endpoint may put in its reply.  Each token     *)
(* stands for one JSON object literal; Obj gives its keys and values.      *)
(***************************************************************************)
Full(tok, ans) ==
    [k \in {"question", "a", "b", "c", "d", "answer", "keywords", "explanation"} |->
        CASE k = "answer" -> ans
          [] k = "question" -> Str(<<tok, "?">>)
          [] k = "keywords" -> Str(<<tok, "k">>)
          [] k = "explanation" -> Str(<<tok, "e">>)
          [] OTHER -> Str(<<tok, k>>)]

Obj ==
    [tok \in {"qa", "qb", "qc", "qd", "qB", "qe", "qm", "qn"} |->
        CASE tok = "qa" -> Full(tok, Str(<<"a">>))
          [] tok = "qb" -> Full(tok, Str(<<"b">>))
          [] tok = "qc" -> Full(tok, Str(<<"c">>))
          [] tok = "qd" -> Full(tok, Str(<<"d">>))
          [] tok = "qB" -> Full(tok, Str(<<" ", "B">>))
          [] tok = "qe" -> Full(tok, Str(<<"e">>))
          [] tok = "qn" -> Full(tok, Null)
          [] OTHER -> [k \in {"question", "a", "b", "d"} |-> Str(<<tok, k>>)]]

ObjTokens == DOMAIN Obj

\* dict.get(key, default)
Get(q, key, default) ==
    IF key \in DOMAIN Obj[q.chars[1]] THEN Obj[q.chars[1]][key] ELSE default

(***************************************************************************)
(* str methods                                                             *)
(***************************************************************************)
IsSpace(c) == c \in {" ", "\n", "\t"}

LowerChar(c) ==
    CASE c = "A" -> "a" [] c = "B" -> "b" [] c = "C" -> "c" [] c = "D" -> "d"
      [] c = "E" -> "e" [] c = "O" -> "o" [] c = "T" -> "t"
      [] OTHER -> c

\* str.lower()
Lower(s) == [k \in 1..Len(s) |-> LowerChar(s[k])]

RECURSIVE LStrip(_)
LStrip(s) == IF s # <<>> /\ IsSpace(Head(s)) THEN LStrip(Tail(s)) ELSE s

RECURSIVE RStrip(_)
RStrip(s) ==
    IF s # <<>> /\ IsSpace(s[Len(s)]) THEN RStrip(SubSeq(s, 1, Len(s) - 1)) ELSE s

\* str.strip()
Strip(s) == RStrip(LStrip(s))

\* str.find(c): lowest 0-based index of c, -1 when absent
Find(s, c) ==
    IF \E k \in 1..Len(s) : s[k] = c
    THEN (CHOOSE k \in 1..Len(s) : s[k] = c /\ \A j \in 1..(k - 1) : s[j] # c) - 1
    ELSE -1

\* str.rfind(c): highest 0-based index of c, -1 when absent
RFind(s, c) ==
    IF \E k \in 1..Len(s) : s[k] = c
    THEN (CHOOSE k \in 1..Len(s) : s[k] = c /\ \A j \in (k + 1)..Len(s) : s[j] # c) - 1
    ELSE -1

\* s[start:end] with Python's treatment of negative and out-of-range indices
Slice(s, start, end) ==
    LET n == Len(s)
        norm(x) == IF x < 0 THEN (IF x + n < 0 THEN 0 ELSE x + n)
                   ELSE (IF x > n THEN n ELSE x)
    IN SubSeq(s, norm(start) + 1, norm(end))

(***************************************************************************)
(* json.loads over reply texts.  A reply text is a sequence of tokens:     *)
(* "[", "]", ",", white space, an object literal (ObjTokens), the number   *)
(* "7", and "x", a character of prose that is not JSON.                    *)
(***************************************************************************)
Raise == [ok |-> FALSE, val |-> None, next |-> 0]

RECURSIVE ParseValue(_, _)
RECURSIVE ParseItems(_, _, _)

\* one JSON value starting at position p
ParseValue(s, p) ==
    IF p > Len(s) THEN Raise
    ELSE CASE s[p] \in ObjTokens -> [ok |-> TRUE, val |-> Dict(s[p]), next |-> p + 1]
           [] s[p] = "7" -> [ok |-> TRUE, val |-> Num, next |-> p + 1]
           [] s[p] = "[" ->
                IF p + 1 <= Len(s) /\ s[p + 1] = "]"
                THEN [ok |-> TRUE, val |-> List(<<>>), next |-> p + 2]
                ELSE ParseItems(s, p + 1, <<>>)
           [] OTHER -> Raise

\* the elements of an array from position p on, acc holding those already read
ParseItems(s, p, acc) ==
    LET v == ParseValue(s, p)
    IN IF ~v.ok \/ v.next > Len(s) THEN Raise
       ELSE CASE s[v.next] = "," -> ParseItems(s, v.next + 1, Append(acc, v.val))
              [] s[v.next] = "]" ->
                   [ok |-> TRUE, val |-> List(Append(acc, v.val)), next |-> v.next + 1]
              [] OTHER -> Raise

\* json.loads that stops at the end of the first value and ignores what follows
json_loads_prefix(text) ==
    LET toks == SelectSeq(text, LAMBDA c : ~IsSpace(c))
        r == ParseValue(toks, 1)
    IN IF r.ok THEN [ok |-> TRUE, val |-> r.val]
       ELSE [ok |-> FALSE, val |-> None]

\* json.loads(text): the whole text must be one JSON value
json_loads(text) ==
    LET toks == SelectSeq(text, LAMBDA c : ~IsSpace(c))
        r == ParseValue(toks, 1)
    IN IF r.ok /\ r.next = Len(toks) + 1 THEN [ok |-> TRUE, val |-> r.val]
       ELSE [ok |-> FALSE, val |-> None]

(***************************************************************************)
(* ask_gemini.  resp is what requests.post produced: net is "ok",          *)
(* "conn_error" (post raises), "http_error" (raise_for_status raises) or   *)
(* "bad_envelope" (the candidates/content/parts/text path is missing);     *)
(* text is the reply text when net = "ok".                                 *)
(***************************************************************************)
Resp(net, text) == [net |-> net, text |-> text]

ask_gemini(resp) ==
    IF resp.net # "ok" THEN None
    ELSE LET start == Find(resp.text, "[")
             end == RFind(resp.text, "]") + 1
             r == json_loads(Slice(resp.text, start, end))
         IN IF r.ok THEN r.val ELSE None

(***************************************************************************)
(* More str methods, used by the handlers                                  *)
(***************************************************************************)
\* sub occurs in s at position k (1-based)
OccursAt(s, sub, k) ==
    /\ k + Len(sub) - 1 <= Len(s)
    /\ \A j \in 1..Len(sub) : s[k + j - 1] = sub[j]

\* `sub in s`
Contains(s, sub) == \E k \in 1..(Len(s) + 1) : OccursAt(s, sub, k)

RECURSIVE Remove(_, _)
\* s.replace(sub, ""), sub not empty
Remove(s, sub) ==
    IF s = <<>> THEN <<>>
    ELSE IF OccursAt(s, sub, 1) THEN Remove(SubSeq(s, Len(sub) + 1, Len(s)), sub)
    ELSE <<Head(s)>> \o Remove(Tail(s), sub)

(***************************************************************************)
(* fetch_bot_username: the handle the platform reports, lower-cased        *)
(***************************************************************************)
Username == <<"B", "o", "t">>
bot_username == Lower(Username)
Mention == <<"@">> \o bot_username

(***************************************************************************)
(* Updates the platform delivers                                           *)
(***************************************************************************)
Update(kind, text) == [kind |-> kind, text |-> text]

\* texts of plain (non-command) messages
Texts ==
    { <<"t">>,
      <<"@", "b", "o", "t", " ", "t">>,
      <<"@", "B", "o", "t", " ", "t">> }

Updates ==
    {Update("start", <<>>), Update("cancel", <<>>)}
        \cup {Update("text", txt) : txt \in Texts}

ChatTypes == {"private", "group", "supergroup"}

(***************************************************************************)
(* Replies of the generation endpoint                                      *)
(***************************************************************************)
Elements == ObjTokens \cup {"7"}

RECURSIVE Join(_)
\* the elements of an array text, separated by commas
Join(toks) ==
    IF Len(toks) = 0 THEN <<>>
    ELSE IF Len(toks) = 1 THEN toks
    ELSE <<Head(toks), ",">> \o Join(Tail(toks))

ArrayText(toks) == <<"[">> \o Join(toks) \o <<"]">>

ElementSeqs(n) == UNION {[1..m -> Elements] : m \in 0..n}

\* the elements used in arrays of two or more: a well-formed question for each of
\* two letters, a question with missing fields, a question whose answer is no string
LongElements == {"qb", "qd", "qm", "qn"}

LongSeqs(n) == UNION {[1..m -> LongElements] : m \in 2..n}

ReplyTexts ==
    {ArrayText(toks) : toks \in ElementSeqs(1) \cup LongSeqs(MaxQuestions)}
        \cup {<<"x", " ">> \o ArrayText(toks) \o <<"\n", "x">> : toks \in ElementSeqs(1)}
        \cup { <<>>, <<"x">>, <<"[", "qb">>, <<"qb", "]">>, <<"]", "qb", "[">>,
               <<"[", "x", "]", " ", "[", "qb", "]">>,
               <<"[", "qb", "]", " ", "[", "x", "]">>,
               <<"[", "[", "qb", "]", "]">> }

Replies ==
    {Resp("ok", txt) : txt \in ReplyTexts}
        \cup {Resp(e, <<>>) : e \in {"conn_error", "http_error", "bad_envelope"}}

(***************************************************************************)
(* Outbound operations, as recorded in `sent`                              *)
(***************************************************************************)
Op(op) == [op |-> op, n |-> 0, target |-> 0, options |-> <<>>, correct |-> -1, body |-> None]

(***************************************************************************)
(* send_polls: the values computed at the top of the loop body             *)
(***************************************************************************)
\* the letter table with -1 for a letter it does not have
LetterToIndexOrMinusOne(letter) ==
    CASE letter = <<"a">> -> 0
      [] letter = <<"b">> -> 1
      [] letter = <<"c">> -> 2
      [] letter = <<"d">> -> 3
      [] OTHER -> -1

\* the letter table numbered from one
LetterToIndexFromOne(letter) ==
    CASE letter = <<"a">> -> 1
      [] letter = <<"b">> -> 2
      [] letter = <<"c">> -> 3
      [] letter = <<"d">> -> 4
      [] OTHER -> 0

\* letter_to_index.get(correct_letter, 0)
LetterToIndex(letter) ==
    CASE letter = <<"a">> -> 0
      [] letter = <<"b">> -> 1
      [] letter = <<"c">> -> 2
      [] letter = <<"d">> -> 3
      [] OTHER -> 0

\* only the choices the question has
OptionsPresent(q) ==
    LET all == [k \in 1..4 |-> Get(q, <<"a", "b", "c", "d">>[k], None)]
    IN SelectSeq(all, LAMBDA v : v # None)

\* options = [q.get(k, "") for k in ("a", "b", "c", "d")]
Options(q) == [k \in 1..4 |-> Get(q, <<"a", "b", "c", "d">>[k], Str(<<>>))]

\* q.get("answer", "").strip().lower() raises AttributeError unless the value is a str
AnswerIsStr(q) == Get(q, "answer", Str(<<>>)).t = "str"

CorrectLetter(q) == Lower(Strip(Get(q, "answer", Str(<<>>)).chars))

CorrectIndex(q) == LetterToIndex(CorrectLetter(q))

\* the loop body's computations (lines 79-89) run without raising
ComputeOk(q) == q.t = "dict" /\ AnswerIsStr(q)

(***************************************************************************)
(* The application.  Updates are handled one at a time (run_polling with   *)
(* the default sequential processing): an update is taken only when no     *)
(* callback is running.  `sent` is cleared when an update is taken, so it  *)
(* holds the operations of the callback that is running or ran last.       *)
(* Platform failures are modelled for the operations of send_polls (the    *)
(* dispatch-time failures); the replies of the handlers succeed.           *)
(***************************************************************************)
NoResp == Resp("none", <<>>)

Init ==
    /\ chatType \in ChatTypes
    /\ variant \in {1, 2}
    /\ conv = "idle"
    /\ pending = <<>>
    /\ pc = "ready"
    /\ handler = "none"
    /\ outcome = "none"
    /\ user_input = <<>>
    /\ reply = NoResp
    /\ raw_mcqs = None
    /\ gen_calls = 0
    /\ i = 0
    /\ msg = 0
    /\ sent = <<>>

\* the platform delivers an update
Receive(u) ==
    /\ Len(pending) < MaxPending
    /\ pending' = Append(pending, u)
    /\ UNCHANGED <<chatType, variant, conv, pc, handler, outcome, user_input,
                   reply, raw_mcqs, gen_calls, i, msg, sent>>

\* updates taken while a callback is still running (concurrent_updates enabled)
TakeConcurrently(h) ==
    /\ pending # <<>>
    /\ pending' = Tail(pending)
    /\ handler' = h
    /\ reply' = NoResp
    /\ raw_mcqs' = None
    /\ gen_calls' = 0
    /\ i' = 0
    /\ msg' = 0
    /\ UNCHANGED <<chatType, variant>>

\* the application takes the next update and gives it to callback h
Take(h) ==
    /\ pc = "ready"
    /\ pending # <<>>
    /\ pending' = Tail(pending)
    /\ handler' = h
    /\ reply' = NoResp
    /\ raw_mcqs' = None
    /\ gen_calls' = 0
    /\ i' = 0
    /\ msg' = 0
    /\ UNCHANGED <<chatType, variant>>

\* the chat type test without "supergroup"
InGroupOnlyGroup == chatType \in {"group"}

InGroup == chatType \in {"group", "supergroup"}

\* the mention test on the text as typed, without lower()
NotMentionedAsTyped(text) == ~Contains(text, Mention)

\* f"@{bot_username}" not in user_input.lower()
NotMentioned(text) == ~Contains(Lower(text), Mention)

\* entry point: CommandHandler("start", start), tried only while the chat is idle
start ==
    /\ Take("start")
    /\ Head(pending).kind = "start"
    /\ conv = "idle"
    /\ sent' = <<Op("reply_welcome")>>
    /\ conv' = "awaiting_topic"
    /\ outcome' = "returned_ASK_TOPIC"
    /\ UNCHANGED <<pc, user_input>>

\* fallback of the conversation: CommandHandler("cancel", cancel)
cancel ==
    /\ Take("cancel")
    /\ Head(pending).kind = "cancel"
    /\ conv = "awaiting_topic"
    /\ sent' = <<Op("reply_canceled")>>
    /\ conv' = "idle"
    /\ outcome' = "returned_END"
    /\ UNCHANGED <<pc, user_input>>

\* a command no handler matches: /start while awaiting a topic, /cancel while idle
Unhandled ==
    /\ Take("none")
    /\ \/ Head(pending).kind = "start" /\ conv = "awaiting_topic"
       \/ Head(pending).kind = "cancel" /\ conv = "idle"
    /\ sent' = <<>>
    /\ outcome' = "none"
    /\ UNCHANGED <<conv, pc, user_input>>

\* MessageHandler(filters.TEXT & ~filters.COMMAND, fallback): text while the chat is idle
fallback ==
    /\ Take("fallback")
    /\ Head(pending).kind = "text"
    /\ conv = "idle"
    /\ user_input' = Strip(Head(pending).text)
    /\ IF InGroup /\ NotMentioned(user_input')
       THEN /\ sent' = <<>>
            /\ outcome' = "returned_None"
       ELSE /\ sent' = <<Op("reminder")>>
            /\ outcome' = "returned_END"
    /\ UNCHANGED <<conv, pc>>

\* handle_topic ending the conversation when it ignores a message
handle_topic_ends_when_ignoring ==
    /\ Take("handle_topic")
    /\ Head(pending).kind = "text"
    /\ conv = "awaiting_topic"
    /\ LET text == Strip(Head(pending).text)
       IN IF InGroup /\ NotMentioned(text)
          THEN /\ user_input' = text
               /\ sent' = <<>>
               /\ outcome' = "returned_None"
               /\ pc' = "ready"
               /\ conv' = "idle"
          ELSE /\ user_input' = IF InGroup THEN Strip(Remove(text, Mention)) ELSE text
               /\ sent' = <<[Op("reply_generating") EXCEPT !.body = Str(user_input')]>>
               /\ outcome' = "running"
               /\ pc' = "ask"
               /\ conv' = conv

\* handle_topic up to the first reply (lines 152-169): text while awaiting a topic
handle_topic ==
    /\ Take("handle_topic")
    /\ Head(pending).kind = "text"
    /\ conv = "awaiting_topic"
    /\ LET text == Strip(Head(pending).text)
       IN IF InGroup /\ NotMentioned(text)
          THEN /\ user_input' = text
               /\ sent' = <<>>
               /\ outcome' = "returned_None"
               /\ pc' = "ready"
          ELSE /\ user_input' = IF InGroup THEN Strip(Remove(text, Mention)) ELSE text
               /\ sent' = <<[Op("reply_generating") EXCEPT !.body = Str(user_input')]>>
               /\ outcome' = "running"
               /\ pc' = "ask"
    /\ UNCHANGED conv

\* the failure branch without `return ConversationHandler.END`: it falls through to send_polls
generation_failed_falls_through ==
    /\ sent' = Append(sent, Op("reply_failed"))
    /\ conv' = conv
    /\ outcome' = outcome
    /\ pc' = "complete"
    /\ i' = i

\* handle_topic, lines 173-174: report the failure and end the conversation
generation_failed ==
    /\ sent' = Append(sent, Op("reply_failed"))
    /\ conv' = "idle"
    /\ outcome' = "returned_END"
    /\ pc' = "ready"
    /\ i' = i

\* handle_topic, lines 171-176: the generation call and the test of its result
generate ==
    /\ pc = "ask"
    /\ \E resp \in Replies :
         /\ reply' = resp
         /\ raw_mcqs' = ask_gemini(resp)
    /\ gen_calls' = gen_calls + 1
    /\ IF ~Truthy(raw_mcqs')
       THEN generation_failed
       ELSE /\ pc' = "question"
            /\ i' = 1
            /\ UNCHANGED <<sent, conv, outcome>>
    /\ UNCHANGED <<chatType, variant, pending, handler, user_input, msg>>

\* the question send_polls is at
q == raw_mcqs.items[i]

\* after the last operation for question i: next iteration, or back in handle_topic
NextQuestion ==
    IF i < Len(raw_mcqs.items)
    THEN i' = i + 1 /\ pc' = "question"
    ELSE i' = i /\ pc' = "complete"

Frame == UNCHANGED <<chatType, variant, conv, pending, handler, outcome, user_input,
                     reply, raw_mcqs, gen_calls>>

\* the question message numbered from zero (enumerate without start=1)
send_question_from_zero ==
    /\ pc = "question"
    /\ ComputeOk(q)
    /\ sent' = Append(sent, [Op("message") EXCEPT !.n = i - 1,
                                 !.body = Get(q, "question", Str(<<>>))])
    /\ msg' = Len(sent) + 1
    /\ pc' = "pin"
    /\ i' = i
    /\ Frame

\* send_polls, lines 79-97: the loop body's computations and the question message
send_question ==
    /\ pc = "question"
    /\ ComputeOk(q)
    /\ sent' = Append(sent, [Op("message") EXCEPT !.n = i,
                                 !.body = Get(q, "question", Str(<<>>))])
    /\ msg' = Len(sent) + 1
    /\ pc' = "pin"
    /\ i' = i
    /\ Frame

\* send_polls, lines 79-84: q.get or .strip() raises AttributeError
compute_raises ==
    /\ pc = "question"
    /\ ~ComputeOk(q)
    /\ outcome' = "raised_AttributeError"
    /\ pc' = "ready"
    /\ UNCHANGED <<chatType, variant, conv, pending, handler, user_input,
                   reply, raw_mcqs, gen_calls, i, msg, sent>>

\* send_polls, line 100
pin_message ==
    /\ pc = "pin"
    /\ sent' = Append(sent, [Op("pin") EXCEPT !.n = i, !.target = msg])
    /\ pc' = "poll"
    /\ UNCHANGED <<i, msg>>
    /\ Frame

\* send_polls, lines 103-112
send_poll ==
    /\ pc = "poll"
    /\ sent' = Append(sent, [Op("poll") EXCEPT !.n = i, !.options = Options(q),
                                 !.correct = CorrectIndex(q)])
    /\ pc' = IF variant = 1 THEN "hint" ELSE "explanation"
    /\ UNCHANGED <<i, msg>>
    /\ Frame

\* send_polls, lines 115-124 (first variant only)
send_hint ==
    /\ pc = "hint"
    /\ sent' = Append(sent, [Op("hint") EXCEPT !.n = i,
                                 !.body = Get(q, "keywords", Str(<<>>))])
    /\ pc' = "explanation"
    /\ UNCHANGED <<i, msg>>
    /\ Frame

\* send_polls, lines 127-137 (second variant: 329-339, which also rebinds msg)
send_explanation ==
    /\ pc = "explanation"
    /\ sent' = Append(sent, [Op("explanation") EXCEPT !.n = i,
                                 !.body = Get(q, "explanation", Str(<<>>))])
    /\ msg' = IF variant = 2 THEN Len(sent) + 1 ELSE msg
    /\ NextQuestion
    /\ Frame

\* the failure caught inside the loop: send_polls goes on with the next question
send_raises_caught ==
    /\ pc \in {"question", "pin", "poll", "hint", "explanation"}
    /\ pc = "question" => ComputeOk(q)
    /\ outcome' = "raised_send_error"
    /\ NextQuestion
    /\ UNCHANGED <<chatType, variant, conv, pending, handler, user_input,
                   reply, raw_mcqs, gen_calls, msg, sent>>

\* an operation of send_polls raises: nothing catches it, in send_polls or in
\* handle_topic, so the callback ends without returning a state
send_raises ==
    /\ pc \in {"question", "pin", "poll", "hint", "explanation"}
    /\ pc = "question" => ComputeOk(q)
    /\ outcome' = "raised_send_error"
    /\ pc' = "ready"
    /\ UNCHANGED <<chatType, variant, conv, pending, handler, user_input,
                   reply, raw_mcqs, gen_calls, i, msg, sent>>

\* handle_topic, lines 177-178
complete ==
    /\ pc = "complete"
    /\ sent' = Append(sent, Op("reply_complete"))
    /\ conv' = "idle"
    /\ outcome' = "returned_END"
    /\ pc' = "ready"
    /\ UNCHANGED <<chatType, variant, pending, handler, user_input,
                   reply, raw_mcqs, gen_calls, i, msg>>

Next ==
    \/ \E u \in Updates : Receive(u)
    \/ start
    \/ cancel
    \/ Unhandled
    \/ fallback
    \/ handle_topic
    \/ generate
    \/ send_question
    \/ compute_raises
    \/ pin_message
    \/ send_poll
    \/ send_hint
    \/ send_explanation
    \/ send_raises
    \/ complete

Spec == Init /\ [][Next]_vars

(***************************************************************************)
(* ask_gemini on its own: every reply text of at most MaxReplyLen tokens   *)
(***************************************************************************)
GenAlphabet == {"[", "]", ",", " ", "x", "qb", "qd"}

GenTexts == UNION {[1..m -> GenAlphabet] : m \in 0..MaxReplyLen}

GenReplies ==
    {Resp("ok", txt) : txt \in GenTexts}
        \cup {Resp(e, <<>>) : e \in {"conn_error", "http_error", "bad_envelope"}}

InitGen ==
    /\ chatType = "private"
    /\ variant = 1
    /\ conv = "awaiting_topic"
    /\ pending = <<>>
    /\ pc = "call"
    /\ handler = "handle_topic"
    /\ outcome = "running"
    /\ user_input = <<"t">>
    /\ reply \in GenReplies
    /\ raw_mcqs = None
    /\ gen_calls = 0
    /\ i = 0
    /\ msg = 0
    /\ sent = <<>>

\* raw_mcqs = ask_gemini(...)
call_ask_gemini ==
    /\ pc = "call"
    /\ raw_mcqs' = ask_gemini(reply)
    /\ gen_calls' = gen_calls + 1
    /\ pc' = "returned"
    /\ UNCHANGED <<chatType, variant, conv, pending, handler, outcome, user_input,
                   reply, i, msg, sent>>

NextGen == call_ask_gemini

SpecGen == InitGen /\ [][NextGen]_vars

(***************************************************************************)
(* Properties                                                              *)
(***************************************************************************)
\* number of operations send_polls performs per question
PerQuestion == IF variant = 1 THEN 5 ELSE 4

\* the questions of the running quiz
Quiz == raw_mcqs.items

\* handle_topic accepted a topic and ask_gemini gave it a non-empty list
Dispatching == handler = "handle_topic" /\ gen_calls = 1 /\ Truthy(raw_mcqs)

\* positions of sent holding operation op
Positions(op) == {k \in 1..Len(sent) : sent[k].op = op}

\* the value stored under key in the question object v, Absent when v has no such key
Absent == [t |-> "absent", chars |-> <<>>, items |-> <<>>]
Field(v, key) == IF key \in DOMAIN Obj[v.chars[1]] THEN Obj[v.chars[1]][key] ELSE Absent

Letters == {<<"a">>, <<"b">>, <<"c">>, <<"d">>}

\* the zero-based index of an answer letter
IndexOf(letter) == CHOOSE n \in 0..3 : <<"a", "b", "c", "d">>[n + 1] = letter[1]

(***************************************************************************)
(* C1  End-to-end ordering.  While handle_topic works on a non-empty list  *)
(* of n questions, the operations performed so far are, after the          *)
(* "generating" reply, those of question 1, then those of question 2, ...: *)
(* for each question its numbered message, the pin of that very message,   *)
(* its poll, then its follow-up messages; the completion message comes     *)
(* only after the last operation of question n.  When the callback ends    *)
(* without a raised error the whole sequence has been performed, with the  *)
(* completion message exactly once, last.  Answers 'b' then 'd' give polls *)
(* with correct index 1 then 3.                                            *)
(***************************************************************************)
ExpectedOp(pos) ==
    CASE pos = 0 -> "message"
      [] pos = 1 -> "pin"
      [] pos = 2 -> "poll"
      [] pos = 3 /\ variant = 1 -> "hint"
      [] OTHER -> "explanation"

InOrder ==
    \A k \in 2..Len(sent) :
        LET qi == ((k - 2) \div PerQuestion) + 1
            pos == (k - 2) % PerQuestion
        IN IF k = 2 + Len(Quiz) * PerQuestion
           THEN sent[k].op = "reply_complete"
           ELSE /\ k < 2 + Len(Quiz) * PerQuestion
                /\ sent[k].op = ExpectedOp(pos)
                /\ sent[k].n = qi
                /\ sent[k].op = "pin" => sent[k].target = k - 1

EndToEndOrdering ==
    Dispatching =>
        /\ sent[1].op = "reply_generating"
        /\ InOrder
        /\ (pc = "ready" /\ outcome \notin {"raised_send_error", "raised_AttributeError"}) =>
              /\ Len(sent) = 2 + Len(Quiz) * PerQuestion
              /\ Positions("reply_complete") = {Len(sent)}
        /\ (outcome = "returned_END" /\ Quiz = <<Dict("qb"), Dict("qd")>>) =>
              /\ sent[4].correct = 1
              /\ sent[4 + PerQuestion].correct = 3

EndToEndWitness ==
    /\ Dispatching
    /\ outcome = "returned_END"
    /\ Quiz = <<Dict("qb"), Dict("qd")>>
    /\ Len(sent) = 2 + 2 * PerQuestion
    /\ sent[Len(sent)].op = "reply_complete"

(***************************************************************************)
(* C2  Answer-letter mapping.  Every poll sent for a question whose        *)
(* 'answer' is one of the letters a, b, c, d has the letter's zero-based   *)
(* index as correct_option_id, and its options are the question's a, b,    *)
(* c, d choices in that order, so the marked option is the choice stored   *)
(* under the answer letter.                                                *)
(***************************************************************************)
AnswerLetterMapping ==
    Dispatching =>
        \A k \in Positions("poll") :
            LET v == Quiz[sent[k].n]
                ans == Field(v, "answer")
            IN (ans.t = "str" /\ ans.chars \in Letters) =>
                  /\ sent[k].correct = IndexOf(ans.chars)
                  /\ sent[k].options =
                        <<Field(v, "a"), Field(v, "b"), Field(v, "c"), Field(v, "d")>>
                  /\ sent[k].options[sent[k].correct + 1] = Field(v, ans.chars[1])

AnswerLetterWitness ==
    /\ Dispatching
    /\ \E k \in Positions("poll") :
          /\ Quiz[sent[k].n] = Dict("qc")
          /\ sent[k].correct = 2
          /\ sent[k].options[3] = Str(<<"qc", "c">>)

(***************************************************************************)
(* C3  Fallback on a bad answer, as claimed: a question whose 'answer' is  *)
(* absent or is any value other than "a", "b", "c", "d" gets its poll with *)
(* correct_option_id 0, and send_polls does not fail on it.                *)
(***************************************************************************)
BadAnswer(v) ==
    /\ v.t = "dict"
    /\ ~(Field(v, "answer").t = "str" /\ Field(v, "answer").chars \in Letters)

BadAnswerFallbackClaim ==
    Dispatching =>
        /\ \A k \in Positions("poll") : BadAnswer(Quiz[sent[k].n]) => sent[k].correct = 0
        /\ outcome = "raised_AttributeError" => ~BadAnswer(Quiz[i])

(***************************************************************************)
(* C4  Group silence.  In a group or supergroup, handling a text message   *)
(* that does not contain the bot's mention performs no outbound operation  *)
(* and no generation call, whether the chat is idle or awaiting a topic:   *)
(* the callback is over at once with nothing sent.                         *)
(***************************************************************************)
\* the text has "@bot" somewhere, in any letter case
HasMention(text) ==
    \E k \in 1..Len(text) :
        /\ k + 3 <= Len(text)
        /\ text[k] = "@"
        /\ text[k + 1] \in {"b", "B"}
        /\ text[k + 2] \in {"o", "O"}
        /\ text[k + 3] \in {"t", "T"}

\* this step takes a text update without the mention, in a group chat
TakesUnmentionedGroupText ==
    /\ chatType \in {"group", "supergroup"}
    /\ pc = "ready"
    /\ pending # <<>>
    /\ Head(pending).kind = "text"
    /\ ~HasMention(Head(pending).text)
    /\ pending' = Tail(pending)

GroupSilence ==
    [][TakesUnmentionedGroupText =>
          /\ sent' = <<>>
          /\ gen_calls' = 0
          /\ pc' = "ready"
          /\ handler' = (IF conv = "idle" THEN "fallback" ELSE "handle_topic")]_vars

GroupSilenceWitness ==
    /\ chatType = "supergroup"
    /\ handler = "handle_topic"
    /\ outcome = "returned_None"
    /\ ~HasMention(user_input)
    /\ sent = <<>>

(***************************************************************************)
(* C5  Conversation state cycle, as claimed: once an exchange has ended -  *)
(* the topic processed to completion, generation failed, a cancel, or a    *)
(* send failing during dispatch - the chat is idle, never awaiting_topic.  *)
(***************************************************************************)
ExchangeEnded ==
    /\ pc = "ready"
    /\ \/ handler = "cancel"
       \/ handler = "handle_topic" /\ outcome \in {"returned_END", "raised_send_error"}

IdleAfterExchangeClaim == ExchangeEnded => conv = "idle"

(***************************************************************************)
(* C6  Generation failure in the flow.  When ask_gemini returns the        *)
(* failure outcome (None) for an accepted topic, handle_topic has sent,    *)
(* after its "generating" reply, exactly one failure message and nothing   *)
(* else, the conversation is ended (idle), and ask_gemini was called once. *)
(***************************************************************************)
GenerationFailedFlow ==
    /\ gen_calls <= 1
    /\ (handler = "handle_topic" /\ gen_calls = 1 /\ raw_mcqs = None) =>
          /\ Cardinality(Positions("reply_failed")) = 1
          /\ \A k \in 1..Len(sent) : sent[k].op \in {"reply_generating", "reply_failed"}
          /\ Len(sent) = 2
          /\ conv = "idle"
          /\ pc = "ready"
          /\ outcome = "returned_END"

GenerationFailedWitness ==
    /\ handler = "handle_topic"
    /\ gen_calls = 1
    /\ reply.net = "http_error"
    /\ raw_mcqs = None
    /\ sent[Len(sent)].op = "reply_failed"

(***************************************************************************)
(* C7  Dispatch abort on send failure.  The step in which an operation of  *)
(* send_polls fails adds nothing to what was sent and ends the callback;   *)
(* afterwards what was sent is a proper part of the quiz's sequence, with  *)
(* no completion message, and it changes no more until the application    *)
(* takes another update.                                                   *)
(***************************************************************************)
DispatchAbort ==
    /\ [][(outcome' = "raised_send_error" /\ outcome # "raised_send_error") =>
             /\ pc \in {"question", "pin", "poll", "hint", "explanation"}
             /\ sent' = sent
             /\ pc' = "ready"]_vars
    /\ [][(outcome = "raised_send_error" /\ ~(pending # <<>> /\ pending' = Tail(pending))) =>
             /\ sent' = sent
             /\ pc' = "ready"]_vars
    /\ [](outcome = "raised_send_error" =>
             /\ Positions("reply_complete") = {}
             /\ Len(sent) < 1 + Len(Quiz) * PerQuestion
             /\ InOrder)

DispatchAbortWitness ==
    /\ outcome = "raised_send_error"
    /\ pc = "ready"
    /\ Len(Quiz) = 2
    /\ i = 1
    /\ sent[Len(sent)].op = "pin"

(***************************************************************************)
(* Reply texts, described without the parser                               *)
(***************************************************************************)
NoSpace(text) == SelectSeq(text, LAMBDA c : ~IsSpace(c))

RECURSIVE IsValueText(_)
RECURSIVE IsItemsText(_)

\* the tokens are one JSON value
IsValueText(toks) ==
    \/ Len(toks) = 1 /\ toks[1] \in ObjTokens \cup {"7"}
    \/ /\ Len(toks) >= 2
       /\ toks[1] = "["
       /\ toks[Len(toks)] = "]"
       /\ Len(toks) = 2 \/ IsItemsText(SubSeq(toks, 2, Len(toks) - 1))

\* the tokens are one or more JSON values separated by commas
IsItemsText(toks) ==
    \/ IsValueText(toks)
    \/ \E k \in 2..(Len(toks) - 1) :
          /\ toks[k] = ","
          /\ IsValueText(SubSeq(toks, 1, k - 1))
          /\ IsItemsText(SubSeq(toks, k + 1, Len(toks)))

\* the text is a well-formed JSON array
IsArrayText(text) ==
    /\ text # <<>>
    /\ text[1] = "["
    /\ text[Len(text)] = "]"
    /\ IsValueText(NoSpace(text))

\* the elements of a well-formed array text that has no nested array, in order
FlatElements(text) == SelectSeq(text, LAMBDA c : c \in ObjTokens \cup {"7"})

Brackets(text, c) == {k \in 1..Len(text) : text[k] = c}

Min(S) == CHOOSE x \in S : \A y \in S : x <= y
Max(S) == CHOOSE x \in S : \A y \in S : x >= y

\* the text has a '[' ... ']' substring
HasBracketPair(text) ==
    /\ Brackets(text, "[") # {}
    /\ Brackets(text, "]") # {}
    /\ Min(Brackets(text, "[")) < Max(Brackets(text, "]"))

\* the text from the first '[' to the last ']'
Bracketed(text) == SubSeq(text, Min(Brackets(text, "[")), Max(Brackets(text, "]")))

(***************************************************************************)
(* C8  Array extraction, as claimed: whenever the reply is some leading    *)
(* text, a well-formed JSON array and some trailing text, ask_gemini       *)
(* returns that array, whatever the leading and trailing text contain.     *)
(***************************************************************************)
ArrayExtractionClaim ==
    (pc = "returned" /\ reply.net = "ok") =>
        \A a \in 1..Len(reply.text) : \A b \in a..Len(reply.text) :
            LET arr == SubSeq(reply.text, a, b)
            IN (IsArrayText(arr) /\ Brackets(arr, "[") = {1}) =>
                  /\ raw_mcqs.t = "list"
                  /\ Len(raw_mcqs.items) = Len(FlatElements(arr))
                  /\ \A k \in 1..Len(raw_mcqs.items) :
                        raw_mcqs.items[k] = Dict(FlatElements(arr)[k])

(***************************************************************************)
(* C9  No garbage result from the client.  For a reply text without a      *)
(* '[' ... ']' substring, or whose text from the first '[' to the last     *)
(* ']' is not valid JSON, and for a network error, a non-2xx status or a   *)
(* reply without the expected envelope, ask_gemini returns None; and what  *)
(* it returns is always None or a list.                                    *)
(***************************************************************************)
MustFail(resp) ==
    \/ resp.net # "ok"
    \/ ~HasBracketPair(resp.text)
    \/ ~IsValueText(NoSpace(Bracketed(resp.text)))

NoGarbageResult ==
    pc = "returned" =>
        /\ MustFail(reply) => raw_mcqs = None
        /\ raw_mcqs.t \in {"none", "list"}
        /\ raw_mcqs.t = "list" => IsArrayText(Bracketed(reply.text))

NoGarbageWitness ==
    /\ pc = "returned"
    /\ reply.net = "ok"
    /\ HasBracketPair(reply.text)
    /\ Len(reply.text) > 3
    /\ IsArrayText(SubSeq(reply.text, 1, 3))
    /\ ~IsValueText(NoSpace(Bracketed(reply.text)))
    /\ raw_mcqs = None

(***************************************************************************)
(* C10  Missing fields, as claimed: when the parsed array holds a question *)
(* record that lacks one of question, a, b, c, d, answer, the exchange     *)
(* ends as a generation failure: no poll is sent for that reply, and the   *)
(* callback ends with the failure message.                                 *)
(***************************************************************************)
ExpectedFields == {"question", "a", "b", "c", "d", "answer"}

LacksField(v) ==
    /\ v.t = "dict"
    /\ \E key \in ExpectedFields : Field(v, key) = Absent

HasIncompleteRecord == \E k \in 1..Len(Quiz) : LacksField(Quiz[k])

MissingFieldsFailClaim ==
    (handler = "handle_topic" /\ gen_calls = 1 /\ raw_mcqs.t = "list" /\ HasIncompleteRecord) =>
        /\ Positions("poll") = {}
        /\ outcome = "returned_END" => Positions("reply_failed") # {}

(***************************************************************************)
(* C10, amended.  A question record that lacks a field is not a generation *)
(* failure: handle_topic sends no failure message and dispatches the list; *)
(* the poll of such a record has the empty string for each missing choice  *)
(* and correct_option_id 0 when the answer is missing.  The failure        *)
(* message is sent when the reply lacks the expected envelope.             *)
(***************************************************************************)
MissingFieldsDefaulted ==
    /\ (handler = "handle_topic" /\ gen_calls = 1 /\ raw_mcqs.t = "list" /\ HasIncompleteRecord) =>
          /\ Positions("reply_failed") = {}
          /\ outcome = "returned_END" =>
                /\ sent[Len(sent)].op = "reply_complete"
                /\ Cardinality(Positions("poll")) = Len(Quiz)
          /\ \A k \in Positions("poll") :
                LET v == Quiz[sent[k].n]
                IN LacksField(v) =>
                      /\ Len(sent[k].options) = 4
                      /\ \A j \in 1..4 :
                            sent[k].options[j] =
                                IF Field(v, <<"a", "b", "c", "d">>[j]) = Absent
                                THEN Str(<<>>)
                                ELSE Field(v, <<"a", "b", "c", "d">>[j])
                      /\ Field(v, "answer") = Absent => sent[k].correct = 0
    /\ (handler = "handle_topic" /\ gen_calls = 1 /\ reply.net = "bad_envelope") =>
          Positions("reply_failed") = {Len(sent)}

MissingFieldsWitness ==
    /\ handler = "handle_topic"
    /\ outcome = "returned_END"
    /\ Quiz = <<Dict("qm")>>
    /\ \E k \in Positions("poll") :
          /\ sent[k].options[3] = Str(<<>>)
          /\ sent[k].options[1] = Str(<<"qm", "a">>)
          /\ sent[k].correct = 0

(***************************************************************************)
(* C11  Handle stripping, as claimed: in a group or supergroup, the topic  *)
(* of every text handle_topic accepted no longer contains the bot's        *)
(* '@handle' mention, in any letter case.                                  *)
(***************************************************************************)
TopicAccepted ==
    /\ handler = "handle_topic"
    /\ sent # <<>>
    /\ sent[1].op = "reply_generating"

HandleStrippedClaim ==
    (chatType \in {"group", "supergroup"} /\ TopicAccepted) =>
        /\ ~HasMention(user_input)
        /\ ~HasMention(sent[1].body.chars)

(***************************************************************************)
(* C12  One exchange at a time.  From the moment handle_topic accepted a   *)
(* topic until its callback is over, the application takes no update: a    *)
(* start, cancel or text that arrives only joins the waiting updates and   *)
(* leaves the position of the dispatch, the conversation state and what    *)
(* was sent as they are; everything sent in that time is the next          *)
(* operation of the running exchange, appended at the end.                 *)
(***************************************************************************)
Arrives == \E u \in Updates : pending' = Append(pending, u)

OneExchangeAtATime ==
    [][pc # "ready" =>
          /\ handler = "handle_topic" /\ handler' = "handle_topic"
          /\ pending' = pending \/ Arrives
          /\ Arrives => /\ sent' = sent
                        /\ pc' = pc
                        /\ i' = i
                        /\ conv' = conv
                        /\ outcome' = outcome
                        /\ raw_mcqs' = raw_mcqs
          /\ sent' # sent =>
                /\ Len(sent') = Len(sent) + 1
                /\ SubSeq(sent', 1, Len(sent)) = sent
                /\ sent'[Len(sent')].op \in
                      {"reply_failed", "message", "pin", "poll", "hint",
                       "explanation", "reply_complete"}]_vars

OneExchangeWitness ==
    /\ pc = "explanation"
    /\ i = 2
    /\ pending # <<>>
    /\ Head(pending).kind = "cancel"
    /\ conv = "awaiting_topic"

(***************************************************************************)
(* C13  Idle reminder.  A text taken while the chat is idle goes to        *)
(* fallback, which makes no generation call, starts no dispatch and leaves *)
(* the chat idle; in a direct chat, or in a group when the text mentions   *)
(* the bot, it sends exactly one reminder.  A text taken while the chat    *)
(* awaits a topic goes to handle_topic, which never sends a reminder.      *)
(***************************************************************************)
TakesText ==
    /\ pc = "ready"
    /\ pending # <<>>
    /\ Head(pending).kind = "text"
    /\ pending' = Tail(pending)

IdleReminder ==
    /\ [][TakesText =>
             IF conv = "idle"
             THEN /\ handler' = "fallback"
                  /\ conv' = "idle"
                  /\ pc' = "ready"
                  /\ gen_calls' = 0
                  /\ (chatType = "private" \/ HasMention(Head(pending).text)) =>
                        sent' = <<Op("reminder")>>
             ELSE /\ handler' = "handle_topic"
                  /\ \A k \in 1..Len(sent') : sent'[k].op # "reminder"]_vars
    /\ [](handler = "handle_topic" => Positions("reminder") = {})
    /\ [](handler = "fallback" =>
             /\ pc = "ready"
             /\ conv = "idle"
             /\ gen_calls = 0
             /\ sent \in {<<>>, <<Op("reminder")>>})

IdleReminderWitness ==
    /\ handler = "fallback"
    /\ chatType = "group"
    /\ user_input = <<"@", "B", "o", "t", " ", "t">>
    /\ sent = <<Op("reminder")>>
    /\ conv = "idle"

(***************************************************************************)
(* C14  Ignored group message keeps the state.  In a group, a text without *)
(* the mention taken while the chat awaits a topic leaves it awaiting a    *)
(* topic; and a text with the mention taken while the chat awaits a topic  *)
(* is accepted as the topic, also when the message before it was ignored.  *)
(***************************************************************************)
IgnoredKeepsState ==
    /\ [][(TakesUnmentionedGroupText /\ conv = "awaiting_topic") =>
             /\ conv' = "awaiting_topic"
             /\ handler' = "handle_topic"
             /\ outcome' = "returned_None"]_vars
    /\ [][(TakesText /\ chatType \in {"group", "supergroup"} /\ conv = "awaiting_topic"
              /\ HasMention(Head(pending).text)) =>
             /\ handler' = "handle_topic"
             /\ pc' = "ask"
             /\ Len(sent') = 1
             /\ sent'[1].op = "reply_generating"]_vars
    /\ []((handler = "handle_topic" /\ outcome = "returned_None") =>
             /\ conv = "awaiting_topic"
             /\ pc = "ready")

IgnoredKeepsStateWitness ==
    /\ chatType = "group"
    /\ handler = "handle_topic"
    /\ outcome = "returned_None"
    /\ conv = "awaiting_topic"
    /\ pending # <<>>
    /\ Head(pending).kind = "text"
    /\ HasMention(Head(pending).text)

(***************************************************************************)
(* C15  Empty quiz counts as failure.  When the reply parses to the empty  *)
(* array, handle_topic sends the failure message after its "generating"    *)
(* reply and nothing else, and the conversation is ended.  Whenever the    *)
(* completion message has been sent, the quiz has at least one question    *)
(* and every question has had all its operations.                          *)
(***************************************************************************)
EmptyQuizIsFailure ==
    /\ (handler = "handle_topic" /\ gen_calls = 1 /\ raw_mcqs = List(<<>>)) =>
          /\ Len(sent) = 2
          /\ sent[2].op = "reply_failed"
          /\ Positions("poll") = {}
          /\ Positions("reply_complete") = {}
          /\ conv = "idle"
          /\ pc = "ready"
          /\ outcome = "returned_END"
    /\ (handler = "handle_topic" /\ Positions("reply_complete") # {}) =>
          /\ raw_mcqs.t = "list"
          /\ Len(Quiz) >= 1
          /\ Cardinality(Positions("poll")) = Len(Quiz)
          /\ Cardinality(Positions("explanation")) = Len(Quiz)

EmptyQuizWitness ==
    /\ handler = "handle_topic"
    /\ gen_calls = 1
    /\ reply = Resp("ok", <<"[", "]">>)
    /\ raw_mcqs = List(<<>>)
    /\ sent[Len(sent)].op = "reply_failed"

(***************************************************************************)
(* C16  Poll shape.  Every poll sent has exactly four options, the a, b,   *)
(* c, d choices of its question in that order with the empty string for a  *)
(* missing one, and a correct_option_id in 0..3; the question messages of  *)
(* a quiz are numbered 1, 2, ... in the order they are sent.               *)
(***************************************************************************)
PollShape ==
    Dispatching =>
        /\ \A k \in Positions("poll") :
              LET v == Quiz[sent[k].n]
              IN /\ Len(sent[k].options) = 4
                 /\ \A j \in 1..4 :
                       sent[k].options[j] =
                           IF Field(v, <<"a", "b", "c", "d">>[j]) = Absent
                           THEN Str(<<>>)
                           ELSE Field(v, <<"a", "b", "c", "d">>[j])
                 /\ sent[k].correct \in 0..3
        /\ \A k \in Positions("message") :
              /\ sent[k].n = Cardinality({m \in Positions("message") : m <= k})
              /\ sent[k].n <= Len(Quiz)
              /\ sent[k].body = Field(Quiz[sent[k].n], "question")

PollShapeWitness ==
    /\ Dispatching
    /\ outcome = "returned_END"
    /\ Quiz = <<Dict("qm"), Dict("qb")>>
    /\ Cardinality(Positions("poll")) = 2
    /\ Cardinality(Positions("message")) = 2

====
